---- MODULE Spec2Model ----
(***************************************************************************)
(* Sports booking service: catalog seeding (list_sports), booking creation *)
(* with conflict detection and pricing (create_booking).                   *)
(*                                                                         *)
(* Strings that the code compares or parses (times, dates) are sequences   *)
(* of one-character strings, so that the lexicographic comparison of the   *)
(* document store and the int(...split(":")[0]) parse are computed as the  *)
(* code computes them.  Fields of Booking that no handler reads            *)
(* (customer_name, phone, status, notes) are left out of the records.      *)
(***************************************************************************)
EXTENDS Integers, Sequences, FiniteSets, TLC

VARIABLES dbc, sport, booking, last, pc, req, loc

vars == <<dbc, sport, booking, last, pc, req, loc>>

----------------------------------------------------------------------------
(* Bounds *)

MaxBookings == 2

NumProcs == 2

Procs == 1..NumProcs

----------------------------------------------------------------------------
(* Strings *)

Digits == {"0", "1", "2", "3", "4", "5", "6", "7", "8", "9"}

CharTable == <<"-", ".", "/", "0", "1", "2", "3", "4", "5", "6", "7", "8", "9", ":">>

\* code point of a character ("-" is 45, "0" is 48, ":" is 58)
CharCode(c) == 44 + (CHOOSE i \in 1..Len(CharTable) : CharTable[i] = c)

DigitVal(c) == CharCode(c) - 48

RECURSIVE StrLt(_, _)
\* a < b as the document store compares strings: by code point, left to right
StrLt(a, b) ==
    IF b = <<>> THEN FALSE
    ELSE IF a = <<>> THEN TRUE
    ELSE IF CharCode(Head(a)) < CharCode(Head(b)) THEN TRUE
    ELSE IF CharCode(Head(a)) > CharCode(Head(b)) THEN FALSE
    ELSE StrLt(Tail(a), Tail(b))

RECURSIVE SplitHead(_)
\* s.split(":")[0]
SplitHead(s) ==
    IF s = <<>> THEN <<>>
    ELSE IF Head(s) = ":" THEN <<>>
    ELSE <<Head(s)>> \o SplitHead(Tail(s))

\* int(t) raises ValueError unless t is a non-empty run of digits
IntOk(t) == t # <<>> /\ \A i \in 1..Len(t) : t[i] \in Digits

RECURSIVE IntOf(_)
IntOf(t) ==
    IF t = <<>> THEN 0
    ELSE 10 * IntOf(SubSeq(t, 1, Len(t) - 1)) + DigitVal(t[Len(t)])

\* Booking.start_time / end_time pattern  ^([01]?[0-9]|2[0-3]):00$
MatchesTimePattern(s) ==
    \/ /\ Len(s) = 4
       /\ s[1] \in Digits
       /\ SubSeq(s, 2, 4) = <<":", "0", "0">>
    \/ /\ Len(s) = 5
       /\ \/ s[1] \in {"0", "1"} /\ s[2] \in Digits
          \/ s[1] = "2" /\ s[2] \in {"0", "1", "2", "3"}
       /\ SubSeq(s, 3, 5) = <<":", "0", "0">>

----------------------------------------------------------------------------
(* Catalog *)

defaults_Swapped ==
    << [key |-> "futsal", name |-> "Futsal", courts |-> 3,
        price_per_hour |-> 150000, open_hour |-> 23, close_hour |-> 8],
       [key |-> "minisoccer", name |-> "Mini Soccer", courts |-> 2,
        price_per_hour |-> 250000, open_hour |-> 8, close_hour |-> 23],
       [key |-> "badminton", name |-> "Badminton", courts |-> 6,
        price_per_hour |-> 60000, open_hour |-> 7, close_hour |-> 22] >>

defaults ==
    << [key |-> "futsal", name |-> "Futsal", courts |-> 3,
        price_per_hour |-> 150000, open_hour |-> 8, close_hour |-> 23],
       [key |-> "minisoccer", name |-> "Mini Soccer", courts |-> 2,
        price_per_hour |-> 250000, open_hour |-> 8, close_hour |-> 23],
       [key |-> "badminton", name |-> "Badminton", courts |-> 6,
        price_per_hour |-> 60000, open_hour |-> 7, close_hour |-> 22] >>

\* "if not sports"
NeedsSeed_Always(sports) == TRUE

NeedsSeed(sports) == sports = <<>>

\* db["sport"].insert_many(defaults)
insert_many(coll, docs) == coll \o docs

\* db["sport"].find_one({"key": key}): index of the first match, 0 for None
find_one_sport(coll, key) ==
    IF \E i \in 1..Len(coll) : coll[i].key = key
    THEN CHOOSE i \in 1..Len(coll) :
            /\ coll[i].key = key
            /\ \A j \in 1..(i - 1) : coll[j].key # key
    ELSE 0

----------------------------------------------------------------------------
(* Requests *)

TimeCandidates ==
    { <<"7", ":", "0", "0">>,
      <<"1", "0", ":", "0", "0">>,
      <<"1", "1", ":", "0", "0">>,
      <<"2", "4", ":", "0", "0">>,
      <<"1", "0", ":", "3", "0">> }

Dates ==
    { <<"2", "0", "2", "4", "-", "0", "6", "-", "0", "1">>,
      <<"2", "0", "2", "4", "-", "0", "6", "-", "0", "2">> }

SportKeys == {"futsal", "minisoccer", "tennis"}

\* 0 is rejected by the schema, 3 is a court of futsal and not of minisoccer
CourtCandidates == {0, 3}

\* Optional[int]: <<>> is None, <<n>> is the integer n
ClientPrices == {<<>>, <<5>>}

\* what the Booking schema accepts (court ge=1, the time pattern, total_price ge=0)
ValidPayload(p) ==
    /\ p.court >= 1
    /\ MatchesTimePattern(p.start_time)
    /\ MatchesTimePattern(p.end_time)
    /\ (p.total_price = <<>> \/ p.total_price[1] >= 0)

Payloads ==
    { p \in [sport : SportKeys, court : CourtCandidates, date : Dates,
             start_time : TimeCandidates, end_time : TimeCandidates,
             total_price : ClientPrices] : ValidPayload(p) }

\* requests of the interleaved specification: one slot, zero-padded times
ConcTimes ==
    { <<"0", "9", ":", "0", "0">>,
      <<"1", "0", ":", "0", "0">>,
      <<"1", "1", ":", "0", "0">> }

ConcPayloads ==
    { p \in [sport : {"futsal"}, court : {1},
             date : {<<"2", "0", "2", "4", "-", "0", "6", "-", "0", "1">>},
             start_time : ConcTimes, end_time : ConcTimes,
             total_price : {<<>>}] : ValidPayload(p) }

NoReq == [sport |-> "", court |-> 0, date |-> <<>>, start_time |-> <<>>,
          end_time |-> <<>>, total_price |-> <<>>]

----------------------------------------------------------------------------
(* create_booking, step by step *)

start_h(p) == IntOf(SplitHead(p.start_time))

end_h(p) == IntOf(SplitHead(p.end_time))

RangeOk_AllowEqual(p) ==
    /\ IntOk(SplitHead(p.start_time))
    /\ IntOk(SplitHead(p.end_time))
    /\ ~ (end_h(p) < start_h(p))

\* the try block: both parses succeed and end_h > start_h
RangeOk(p) ==
    /\ IntOk(SplitHead(p.start_time))
    /\ IntOk(SplitHead(p.end_time))
    /\ ~ (end_h(p) <= start_h(p))

hours(p) == end_h(p) - start_h(p)

total_ClientFirst(p, sport_doc) ==
    IF p.total_price # <<>> THEN p.total_price[1]
    ELSE hours(p) * sport_doc.price_per_hour

total(p, sport_doc) == hours(p) * sport_doc.price_per_hour

\* the filter of the conflict query, on one stored booking b
ConflictFilter(b, p) ==
    /\ b.sport = p.sport
    /\ b.court = p.court
    /\ b.date = p.date
    /\ StrLt(b.start_time, p.end_time)
    /\ StrLt(p.start_time, b.end_time)

\* db["booking"].find_one(...) is not None
conflict(coll, p) == \E i \in 1..Len(coll) : ConflictFilter(coll[i], p)

\* data = payload.model_dump(); data["total_price"] = total
data(p, t) ==
    [sport |-> p.sport, court |-> p.court, date |-> p.date,
     start_time |-> p.start_time, end_time |-> p.end_time, total_price |-> t]

\* create_document("booking", data): appends the record to the collection
create_document(coll, d) == Append(coll, d)

Response(op, status, t, items) ==
    [op |-> op, status |-> status, total_price |-> t, items |-> items]

----------------------------------------------------------------------------
(* The handlers, each as one atomic request *)

Init ==
    /\ dbc \in BOOLEAN
    /\ sport = <<>>
    /\ booking = <<>>
    /\ last = Response("none", 0, 0, <<>>)
    /\ pc = [p \in Procs |-> "idle"]
    /\ req = [p \in Procs |-> NoReq]
    /\ loc = [p \in Procs |-> 0]

\* list_sports: the catalog after the call and the list returned
list_sports ==
    IF ~dbc THEN [status |-> 500, sport |-> sport, items |-> <<>>]
    ELSE IF NeedsSeed(sport)
         THEN [status |-> 200, sport |-> insert_many(sport, defaults),
               items |-> insert_many(sport, defaults)]
         ELSE [status |-> 200, sport |-> sport, items |-> sport]

create_booking_Upsert(p) ==
    IF ~dbc THEN [status |-> 500, total_price |-> 0, booking |-> booking]
    ELSE LET i == find_one_sport(sport, p.sport) IN
         IF i = 0 THEN [status |-> 404, total_price |-> 0, booking |-> booking]
         ELSE IF ~RangeOk(p)
              THEN [status |-> 400, total_price |-> 0, booking |-> booking]
              ELSE LET t == total(p, sport[i]) IN
                   IF conflict(booking, p)
                   THEN [status |-> 409, total_price |-> 0, booking |-> booking]
                   ELSE [status |-> 201, total_price |-> t,
                         booking |-> IF booking = <<>> THEN <<data(p, t)>>
                                     ELSE [booking EXCEPT ![Len(booking)] = data(p, t)]]

create_booking_NoLookup(p) ==
    IF ~dbc THEN [status |-> 500, total_price |-> 0, booking |-> booking]
    ELSE IF ~RangeOk(p)
         THEN [status |-> 400, total_price |-> 0, booking |-> booking]
         ELSE LET i == find_one_sport(sport, p.sport)
                  t == IF i = 0 THEN 0 ELSE total(p, sport[i]) IN
              IF conflict(booking, p)
              THEN [status |-> 409, total_price |-> 0, booking |-> booking]
              ELSE [status |-> 201, total_price |-> t,
                    booking |-> create_document(booking, data(p, t))]

create_booking_LookupFirst(p) ==
    LET i == find_one_sport(sport, p.sport) IN
    IF i = 0 THEN [status |-> 404, total_price |-> 0, booking |-> booking]
    ELSE IF ~dbc THEN [status |-> 500, total_price |-> 0, booking |-> booking]
    ELSE IF ~RangeOk(p)
         THEN [status |-> 400, total_price |-> 0, booking |-> booking]
         ELSE LET t == total(p, sport[i]) IN
              IF conflict(booking, p)
              THEN [status |-> 409, total_price |-> 0, booking |-> booking]
              ELSE [status |-> 201, total_price |-> t,
                    booking |-> create_document(booking, data(p, t))]

create_booking_InsertFirst(p) ==
    IF ~dbc THEN [status |-> 500, total_price |-> 0, booking |-> booking]
    ELSE LET i == find_one_sport(sport, p.sport) IN
         IF i = 0 THEN [status |-> 404, total_price |-> 0, booking |-> booking]
         ELSE IF ~RangeOk(p)
              THEN [status |-> 400, total_price |-> 0, booking |-> booking]
              ELSE LET t == total(p, sport[i]) IN
                   IF conflict(booking, p)
                   THEN [status |-> 409, total_price |-> 0,
                         booking |-> create_document(booking, data(p, t))]
                   ELSE [status |-> 201, total_price |-> t,
                         booking |-> create_document(booking, data(p, t))]

\* create_booking: the status, the total returned and the ledger after the call
create_booking(p) ==
    IF ~dbc THEN [status |-> 500, total_price |-> 0, booking |-> booking]
    ELSE LET i == find_one_sport(sport, p.sport) IN
         IF i = 0 THEN [status |-> 404, total_price |-> 0, booking |-> booking]
         ELSE IF ~RangeOk(p)
              THEN [status |-> 400, total_price |-> 0, booking |-> booking]
              ELSE LET t == total(p, sport[i]) IN
                   IF conflict(booking, p)
                   THEN [status |-> 409, total_price |-> 0, booking |-> booking]
                   ELSE [status |-> 201, total_price |-> t,
                         booking |-> create_document(booking, data(p, t))]

ListSports ==
    LET out == list_sports IN
    /\ sport' = out.sport
    /\ last' = Response("list_sports", out.status, 0, out.items)
    /\ UNCHANGED <<dbc, booking, pc, req, loc>>

CreateBooking(p) ==
    LET out == create_booking(p) IN
    /\ Len(out.booking) <= MaxBookings
    /\ booking' = out.booking
    /\ last' = Response("create_booking", out.status, out.total_price, <<>>)
    /\ UNCHANGED <<dbc, sport, pc, req, loc>>

\* Optional[str] query parameters: <<>> is None, <<v>> is the string v
SportFilters == {<<>>, <<"">>, <<"futsal">>, <<"tennis">>}

DateFilters ==
    { <<>>, << <<>> >>,
      << <<"2", "0", "2", "4", "-", "0", "6", "-", "0", "1">> >> }

\* "if sport:" and "if date:": None and the empty string add no condition
SportGiven(f) == f # <<>> /\ f[1] # ""

DateGiven(f) == f # <<>> /\ Len(f[1]) > 0

Matches_SportOnly(b, sf, df) == SportGiven(sf) => b.sport = sf[1]

\* the query built from the parameters, on one stored booking b
Matches(b, sf, df) ==
    /\ SportGiven(sf) => b.sport = sf[1]
    /\ DateGiven(df) => b.date = df[1]

\* sort key ("date", 1), ("start_time", 1): a sorts strictly before b
SortsBefore(a, b) ==
    \/ StrLt(a.date, b.date)
    \/ a.date = b.date /\ StrLt(a.start_time, b.start_time)

\* positions in the collection of the documents the query finds
Found(coll, sf, df) == {i \in 1..Len(coll) : Matches(coll[i], sf, df)}

\* the orders in which the sorted cursor may yield the found documents:
\* ascending by the sort key, documents of equal key in any order
Orderings(coll, S) ==
    { o \in [1..Cardinality(S) -> S] :
        /\ \A k, l \in 1..Cardinality(S) : o[k] = o[l] => k = l
        /\ \A k, l \in 1..Cardinality(S) :
              k < l => ~ SortsBefore(coll[o[l]], coll[o[k]]) }

\* b["id"] = str(b.pop("_id")): the document with its identity, here its
\* position in the collection
Item(coll, i) ==
    [id |-> i, sport |-> coll[i].sport, court |-> coll[i].court,
     date |-> coll[i].date, start_time |-> coll[i].start_time,
     end_time |-> coll[i].end_time, total_price |-> coll[i].total_price]

RECURSIVE Items(_, _, _)
Items(coll, o, n) ==
    IF n = 0 THEN <<>> ELSE Append(Items(coll, o, n - 1), Item(coll, o[n]))

\* list_bookings with the store configured: the lists it may return
list_bookings(sf, df) ==
    { Items(booking, o, Cardinality(Found(booking, sf, df))) :
        o \in Orderings(booking, Found(booking, sf, df)) }

ListBookings(sf, df) ==
    /\ IF ~dbc
       THEN last' = Response("list_bookings", 500, 0, <<>>)
       ELSE \E r \in list_bookings(sf, df) :
               last' = Response("list_bookings", 200, 0, r)
    /\ UNCHANGED <<dbc, sport, booking, pc, req, loc>>

Next ==
    \/ ListSports
    \/ \E p \in Payloads : CreateBooking(p)
    \/ \E sf \in SportFilters : \E df \in DateFilters : ListBookings(sf, df)

Spec == Init /\ [][Next]_vars

----------------------------------------------------------------------------
(* The handlers interleaved: one step per document-store operation *)

InFlight == Cardinality({q \in Procs : pc[q] \in {"cb_check", "cb_insert"}})

Done(p, r) ==
    /\ last' = r
    /\ pc' = [pc EXCEPT ![p] = "idle"]
    /\ req' = [req EXCEPT ![p] = NoReq]
    /\ loc' = [loc EXCEPT ![p] = 0]

\* create_booking up to the conflict query: sport lookup, parse, total
CBLookup(p, payload) ==
    /\ pc[p] = "idle"
    /\ IF ~dbc
       THEN Done(p, Response("create_booking", 500, 0, <<>>))
       ELSE LET i == find_one_sport(sport, payload.sport) IN
            IF i = 0
            THEN Done(p, Response("create_booking", 404, 0, <<>>))
            ELSE IF ~RangeOk(payload)
                 THEN Done(p, Response("create_booking", 400, 0, <<>>))
                 ELSE /\ Len(booking) + InFlight < MaxBookings
                      /\ pc' = [pc EXCEPT ![p] = "cb_check"]
                      /\ req' = [req EXCEPT ![p] = payload]
                      /\ loc' = [loc EXCEPT ![p] = total(payload, sport[i])]
                      /\ UNCHANGED last
    /\ UNCHANGED <<dbc, sport, booking>>

\* the conflict query
CBCheck(p) ==
    /\ pc[p] = "cb_check"
    /\ IF conflict(booking, req[p])
       THEN Done(p, Response("create_booking", 409, 0, <<>>))
       ELSE /\ pc' = [pc EXCEPT ![p] = "cb_insert"]
            /\ UNCHANGED <<last, req, loc>>
    /\ UNCHANGED <<dbc, sport, booking>>

Persist_Rechecked(coll, p, t) ==
    IF conflict(coll, p) THEN coll ELSE create_document(coll, data(p, t))

\* the ledger after the insert that follows a passed conflict check
Persist(coll, p, t) == create_document(coll, data(p, t))

CBInsert(p) ==
    /\ pc[p] = "cb_insert"
    /\ booking' = Persist(booking, req[p], loc[p])
    /\ Done(p, Response("create_booking", 201, loc[p], <<>>))
    /\ UNCHANGED <<dbc, sport>>

\* list_sports up to the seeding decision
LSFind(p) ==
    /\ pc[p] = "idle"
    /\ IF ~dbc
       THEN Done(p, Response("list_sports", 500, 0, <<>>))
       ELSE IF NeedsSeed(sport)
            THEN /\ pc' = [pc EXCEPT ![p] = "ls_insert"]
                 /\ UNCHANGED <<last, req, loc>>
            ELSE Done(p, Response("list_sports", 200, 0, sport))
    /\ UNCHANGED <<dbc, sport, booking>>

LSInsert(p) ==
    /\ pc[p] = "ls_insert"
    /\ sport' = insert_many(sport, defaults)
    /\ pc' = [pc EXCEPT ![p] = "ls_refind"]
    /\ UNCHANGED <<dbc, booking, last, req, loc>>

LSRefind(p) ==
    /\ pc[p] = "ls_refind"
    /\ Done(p, Response("list_sports", 200, 0, sport))
    /\ UNCHANGED <<dbc, sport, booking>>

ConcNext ==
    \/ \E p \in Procs : \E payload \in ConcPayloads : CBLookup(p, payload)
    \/ \E p \in Procs : CBCheck(p)
    \/ \E p \in Procs : CBInsert(p)
    \/ \E p \in Procs : LSFind(p)
    \/ \E p \in Procs : LSInsert(p)
    \/ \E p \in Procs : LSRefind(p)

ConcSpec == Init /\ [][ConcNext]_vars

----------------------------------------------------------------------------
(* Vocabulary of the properties: hours, slots, the catalog entry of a key *)

\* the half-open hour intervals of a and b overlap
HourOverlap(a, b) == start_h(a) < end_h(b) /\ end_h(a) > start_h(b)

SameSlot(a, b) == a.sport = b.sport /\ a.court = b.court /\ a.date = b.date

InCatalog(key) == \E i \in 1..Len(sport) : sport[i].key = key

CatalogEntry(key) == sport[find_one_sport(sport, key)]

Errors == {400, 404, 409, 500}

----------------------------------------------------------------------------
(* Properties *)

\* C1: requests run one at a time never leave two bookings of the same
\* (sport, court, date) whose hour intervals [start_hour, end_hour) overlap.
C1_NoOverlappingBookings ==
    \A i, j \in 1..Len(booking) :
        i < j /\ SameSlot(booking[i], booking[j])
            => ~ HourOverlap(booking[i], booking[j])

\* C2: a request that has passed the conflict check persists its booking
\* whatever was inserted since the check: the check and the insert are two
\* steps, and the insert is unconditional.
C2_InsertAfterCheckIsUnconditional ==
    [][\A p \in Procs :
          pc[p] = "cb_insert" /\ pc'[p] = "idle"
              => /\ booking' = Append(booking, data(req[p], loc[p]))
                 /\ last'.status = 201]_vars

\* C2 witness: two interleaved requests for overlapping ranges of one slot
\* have both been persisted.
C2_DoubleBooked ==
    /\ \A p \in Procs : pc[p] = "idle"
    /\ \E i, j \in 1..Len(booking) :
          /\ i < j
          /\ SameSlot(booking[i], booking[j])
          /\ HourOverlap(booking[i], booking[j])

\* C3: with the store available, an existing sport and a valid range, the
\* request fails with Conflict exactly when the ledger holds a booking of the
\* same (sport, court, date) whose hour interval overlaps the requested one.
C3_ConflictIffHourOverlap ==
    [][\A p \in Payloads :
          CreateBooking(p) /\ dbc /\ InCatalog(p.sport) /\ end_h(p) > start_h(p)
              => (last'.status = 409
                    <=> \E i \in 1..Len(booking) :
                           SameSlot(booking[i], p) /\ HourOverlap(booking[i], p))]_vars

\* the outcome the pipeline of C4 prescribes
C4_Expected(p) ==
    IF ~ InCatalog(p.sport) THEN 404
    ELSE IF end_h(p) <= start_h(p) THEN 400
    ELSE IF \E i \in 1..Len(booking) :
               SameSlot(booking[i], p) /\ HourOverlap(booking[i], p) THEN 409
    ELSE 201

\* C4: with the store available, every request ends in the first of NotFound,
\* InvalidRange, Conflict that applies, and in success when none does.
C4_PipelineOrder ==
    [][\A p \in Payloads :
          CreateBooking(p) /\ dbc => last'.status = C4_Expected(p)]_vars

\* C5: a request that ends in an error leaves the ledger and the catalog as
\* they were; the ledger changes only in a step that ends in success.
C5_ErrorsChangeNothing ==
    [][/\ (last'.op = "create_booking" /\ last'.status \in Errors)
             => booking' = booking /\ sport' = sport
       /\ booking' # booking
             => last'.op = "create_booking" /\ last'.status = 201]_vars

\* C5 witness: a request was refused with Conflict against a non-empty ledger.
C5_ConflictRefused ==
    /\ last.op = "create_booking"
    /\ last.status = 409
    /\ Len(booking) >= 1

\* C6: a successful request returns and stores
\* (end_hour - start_hour) * price_per_hour of its sport, a non-negative
\* integer, whatever total_price the client sent (requests carry None and 5).
C6_TotalIsHoursTimesRate ==
    /\ \A i \in 1..Len(booking) :
          /\ booking[i].total_price =
                (end_h(booking[i]) - start_h(booking[i]))
                    * CatalogEntry(booking[i].sport).price_per_hour
          /\ booking[i].total_price >= 0
    /\ (last.op = "create_booking" /\ last.status = 201)
          => last.total_price = booking[Len(booking)].total_price

\* C6 witness: three hours of futsal were booked for 450000.
C6_BookedThreeHours ==
    /\ last.op = "create_booking"
    /\ last.status = 201
    /\ last.total_price = 450000
    /\ booking[Len(booking)].sport = "futsal"
    /\ booking[Len(booking)].total_price = 450000

\* C7: run one at a time, every list_sports returns the three defaults, and
\* the catalog is empty or exactly the three defaults, never six sports.
C7_SeedsOnce ==
    /\ Len(sport) \in {0, 3}
    /\ sport # <<>> => sport = defaults
    /\ (last.op = "list_sports" /\ last.status = 200)
          => last.items = defaults /\ sport = defaults

\* C7 witness: list_sports has returned after a booking was made, so after
\* the call that seeded the catalog.
C7_ListedAgain ==
    /\ last.op = "list_sports"
    /\ last.status = 200
    /\ Len(booking) >= 1

\* C8: under interleaved list_sports calls every key occurs at most once in
\* the catalog and the catalog holds at most three sports.
C8_NoDoubleSeeding ==
    /\ Len(sport) <= 3
    /\ \A i, j \in 1..Len(sport) : sport[i].key = sport[j].key => i = j

\* C9: every booking in the ledger has a court in [1, courts] of its sport.
C9_CourtWithinSport ==
    \A i \in 1..Len(booking) :
        booking[i].court \in 1..CatalogEntry(booking[i].sport).courts

\* C10: every booking in the ledger starts and ends within the operating
\* hours [open_hour, close_hour] of its sport.
C10_WithinOperatingHours ==
    \A i \in 1..Len(booking) :
        LET s == CatalogEntry(booking[i].sport) IN
        /\ s.open_hour <= start_h(booking[i])
        /\ end_h(booking[i]) <= s.close_hour

\* C11: list_bookings returns the bookings in chronological order: ascending
\* by date, and within one date ascending by start hour.
C11_ListedChronologically ==
    (last.op = "list_bookings" /\ last.status = 200)
        => \A k, l \in 1..Len(last.items) :
              k < l =>
                 /\ ~ StrLt(last.items[l].date, last.items[k].date)
                 /\ last.items[k].date = last.items[l].date
                       => start_h(last.items[k]) <= start_h(last.items[l])

\* C12: with the store unconfigured every request of the three handlers ends
\* in 500, whatever else is wrong with it, and the catalog and the ledger
\* stay as they were.
C12_StorageUnavailableFirst ==
    ~dbc => /\ last.op # "none" => last.status = 500
            /\ last.items = <<>>
            /\ sport = <<>>
            /\ booking = <<>>

\* C12 witness: a create_booking request was refused with 500 by an
\* unconfigured store.
C12_CreateRefusedWithoutStore ==
    /\ ~dbc
    /\ last.op = "create_booking"
    /\ last.status = 500

\* the requests whose end hour is not after their start hour
C13_NonPositive == {p \in Payloads : end_h(p) <= start_h(p)}

\* C13: every booking in the ledger ends at a later hour than it starts, and
\* in every reachable state a request for an existing sport with
\* end_hour <= start_hour ends in 400.
C13_PositiveDuration ==
    /\ \A i \in 1..Len(booking) : end_h(booking[i]) > start_h(booking[i])
    /\ \A p \in C13_NonPositive :
          InCatalog(p.sport) => create_booking(p).status = 400

\* C13 witness: with the catalog seeded, a request was refused with 400.
C13_RangeRefused ==
    /\ sport # <<>>
    /\ last.op = "create_booking"
    /\ last.status = 400

\* C14: the ledger is append-only: a step either leaves it as it was or
\* appends one record behind the unchanged existing ones, which only a
\* successful create_booking does (and always does); list_sports and
\* list_bookings never change it.
C14_AppendOnly ==
    [][/\ \/ booking' = booking
          \/ /\ Len(booking') = Len(booking) + 1
             /\ SubSeq(booking', 1, Len(booking)) = booking
             /\ last'.op = "create_booking"
             /\ last'.status = 201
       /\ (last'.op = "create_booking" /\ last'.status = 201)
             => Len(booking') = Len(booking) + 1
       /\ last'.op \in {"list_sports", "list_bookings"}
             => booking' = booking]_vars

\* C14 witness: a second record was appended behind the first.
C14_SecondAppended ==
    /\ Len(booking) = 2
    /\ last.op = "create_booking"
    /\ last.status = 201

\* the records a listing with parameters sf, df is to return: those equal to
\* every parameter that was given (None and the empty string give none)
C15_Wanted(sf, df) ==
    { i \in 1..Len(booking) :
        /\ (sf # <<>> /\ sf[1] # "") => booking[i].sport = sf[1]
        /\ (df # <<>> /\ df[1] # <<>>) => booking[i].date = df[1] }

\* C15: in every reachable state, list_bookings(sport, date) returns each
\* ledger record that matches every given filter exactly once, and no other;
\* without filters it returns every record.
C15_ExactlyTheMatches ==
    /\ \A sf \in SportFilters : \A df \in DateFilters :
          \A r \in list_bookings(sf, df) :
             /\ Len(r) = Cardinality(C15_Wanted(sf, df))
             /\ {r[k].id : k \in 1..Len(r)} = C15_Wanted(sf, df)
             /\ \A k \in 1..Len(r) : r[k] = Item(booking, r[k].id)
    /\ \A r \in list_bookings(<<>>, <<>>) : Len(r) = Len(booking)

\* C15 witness: a listing returned some of the ledger's records and left
\* others out.
C15_FilteredListing ==
    /\ last.op = "list_bookings"
    /\ last.status = 200
    /\ Len(last.items) >= 1
    /\ Len(last.items) < Len(booking)

\* C16: while the catalog is empty the ledger is empty and every
\* create_booking on a configured store ends in 404, for every sport key;
\* the catalog changes only in a list_sports step.
C16_NoBookingBeforeSeeding ==
    /\ [](sport = <<>> =>
             /\ booking = <<>>
             /\ dbc => \A p \in Payloads : create_booking(p).status = 404)
    /\ [][sport' # sport => last'.op = "list_sports" /\ sport = <<>>]_vars

\* C16 witness: a create_booking was refused with 404 before any seeding.
C16_RefusedBeforeSeeding ==
    /\ dbc
    /\ sport = <<>>
    /\ last.op = "create_booking"
    /\ last.status = 404

\* C17: every sport of the catalog has close_hour > open_hour, courts >= 1
\* and price_per_hour >= 0, and no create_booking or list_bookings step
\* changes the catalog.
C17_CatalogWellFormed ==
    /\ [](\A i \in 1..Len(sport) :
             /\ sport[i].close_hour > sport[i].open_hour
             /\ sport[i].courts >= 1
             /\ sport[i].price_per_hour >= 0)
    /\ [][last'.op \in {"create_booking", "list_bookings"}
             => sport' = sport]_vars

\* C17 witness: a booking was created against the seeded catalog.
C17_BookedOnSeededCatalog ==
    /\ Len(sport) = 3
    /\ last.op = "create_booking"
    /\ last.status = 201

====
